---- MODULE Spec2Model ----
(***************************************************************************)
(* Real-time transcript ingestion and distribution pipeline of the         *)
(* meeting-assistant backend (RecallService, the /api/recall routes, the   *)
(* /api/webhooks routes, the WebSocket hub of index.js, the Meeting        *)
(* collection) and the client-side transcript list (useTranscription).     *)
(*                                                                         *)
(* Node runs every handler on one event loop: a handler runs without       *)
(* interruption up to its next `await`.  Each action below is therefore    *)
(* one such run-to-suspension segment of a handler, and the interleavings  *)
(* of the model are the interleavings of awaited I/O completions.          *)
(***************************************************************************)
EXTENDS Integers, Sequences, FiniteSets, TLC

----------------------------------------------------------------------------
(* Bounds of the model *)

MaxBots == 2
MaxReqs == 3
MaxEvents == 2
MaxConns == 2
MaxUploads == 2
MaxWebhooks == 3

(* Program constants *)

WsOpen == 1
WsClosing == 2
WsClosed == 3

----------------------------------------------------------------------------
Users == {"u1", "u2"}
NoUser == "null"
BotIds == 1 .. MaxBots
ReqIds == 1 .. MaxReqs
EvIds == 1 .. MaxEvents
Conns == 1 .. MaxConns
\* provider ids are unique across bots and SDK uploads
UploadIds == (MaxBots + 1) .. (MaxBots + MaxUploads)
MeetingIds == BotIds \cup UploadIds

NoBot == [userId |-> NoUser, status |-> "absent"]
NoRec == [userId |-> NoUser, status |-> "absent", transcriptions |-> << >>, endTime |-> FALSE]
NoReq == [kind |-> "none", user |-> NoUser, bot |-> 0, pc |-> "idle", resp |-> 0]
NoStream == [state |-> "none", userId |-> NoUser]
NoWh == [route |-> "none", event |-> "none", bot |-> 0, steps |-> << >>, resp |-> 0,
         escaped |-> FALSE]

VARIABLES
    activeBots,             \* RecallService.activeBots: botId -> bot metadata
    transcriptConnections,  \* RecallService.transcriptConnections: botId -> channel type
    nextBot,                \* provider: number of bot ids assigned so far
    reqs,                   \* HTTP requests of /api/recall and where each is suspended
    meetings,               \* Meeting collection, one document per botId
    conns,                  \* client sockets: readyState and wsClients metadata
    sent,                   \* messages the server sent on each client socket
    emitted,                \* transcript events emitted on recallService, in emission order
    tasks,                  \* transcript handler invocations: where each is suspended
    lastWh,                 \* the webhook request handled last: steps taken, response
    whCount,                \* webhook requests handled
    dbConnected,            \* mongoose.connection.readyState === 1
    useWebhook,             \* BACKEND_URL is set and is not a loopback address
    activeUploads,          \* RecallDesktopService.activeUploads: uploadId -> metadata
    uploadTokens,           \* RecallDesktopService.uploadTokens, as the upload ids mapped
    nextUpload,             \* provider: number of upload ids assigned so far
    transcriptions,         \* useTranscription: the client's transcript list
    received,               \* transcription messages the client received since the last reset
    sweep,                  \* SIGTERM handler: outcome of the terminate call per session
    sweepPc,                \* SIGTERM handler: where it is suspended
    stream                  \* the provider-side transcript socket of each bot (ws client)

vars == << activeBots, transcriptConnections, nextBot, reqs, meetings, conns, sent,
           emitted, tasks, lastWh, whCount, dbConnected, useWebhook,
           activeUploads, uploadTokens, nextUpload, transcriptions, received,
           sweep, sweepPc, stream >>

registryVars == << activeBots, transcriptConnections, nextBot >>
pipeVars == << emitted, tasks >>
whVars == << lastWh, whCount >>
envVars == << dbConnected, useWebhook >>
desktopVars == << activeUploads, uploadTokens, nextUpload >>
hookVars == << transcriptions, received >>
sweepVars == << sweep, sweepPc >>

----------------------------------------------------------------------------
(* Registry helpers *)

HasBot(b) == b \in BotIds /\ activeBots[b] # NoBot

\* getBotByUserId: the first entry, in insertion (= id) order, owned by userId; 0 for null
BotsOf(userId) == {b \in BotIds : activeBots[b] # NoBot /\ activeBots[b].userId = userId}

SetMin(S) == CHOOSE x \in S : \A y \in S : x <= y

getBotByUserId(userId) == IF BotsOf(userId) = {} THEN 0 ELSE SetMin(BotsOf(userId))

\* bot.status?.code || bot.status || dflt, for a provider response whose status is s ("" if absent)
StatusCode(s, dflt) == IF s = "" THEN dflt ELSE s

\* if (activeBots.has(botId)) activeBots.get(botId).status = st
\* (with the has() test replaced by an upsert)
SetStatusUpsert(reg, b, st) ==
    IF b \in BotIds THEN [reg EXCEPT ![b] = [userId |-> reg[b].userId, status |-> st]] ELSE reg

SetStatus(reg, b, st) ==
    IF b \in BotIds /\ reg[b] # NoBot THEN [reg EXCEPT ![b].status = st] ELSE reg

----------------------------------------------------------------------------
(* Fan-out helpers (index.js) *)

HasMeta(c) == conns[c].readyState \in {WsOpen, WsClosing}

\* the guard of the bot-created / bot-left broadcast loops
LifecycleTarget(c, userId) == conns[c].readyState = WsOpen /\ HasMeta(c)

\* the guard of the transcript broadcast loop; without the owner test
TranscriptTargetLeak(c, userId) == conns[c].readyState = WsOpen /\ HasMeta(c)

\* the loop stops after its first send
TranscriptTargetFirst(c, userId) ==
    /\ conns[c].readyState = WsOpen /\ conns[c].userId = userId
    /\ \A d \in Conns : d < c => ~(conns[d].readyState = WsOpen /\ conns[d].userId = userId)

\* the loop ends at the first socket that is not open
TranscriptTargetStopAtClosed(c, userId) ==
    /\ conns[c].readyState = WsOpen /\ conns[c].userId = userId
    /\ \A d \in Conns : d < c => conns[d].readyState # WsClosing

TranscriptTarget(c, userId) ==
    conns[c].readyState = WsOpen /\ HasMeta(c) /\ conns[c].userId = userId

Msg(type, botId, userId, status, speaker, text, isFinal, ev) ==
    [type |-> type, botId |-> botId, userId |-> userId, status |-> status,
     speaker |-> speaker, text |-> text, isFinal |-> isFinal, ev |-> ev]

LifecycleMsg(type, botId, userId, status) ==
    Msg(type, botId, userId, status, "", "", FALSE, 0)

TranscriptionMsg(e, ev) ==
    Msg("transcription", e.botId, NoUser, "", e.speaker, e.text, e.isFinal, ev)

BroadcastLifecycle(s, m) ==
    [c \in Conns |-> IF LifecycleTarget(c, m.userId) THEN Append(s[c], m) ELSE s[c]]

BroadcastTranscript(s, e, ev) ==
    [c \in Conns |-> IF TranscriptTarget(c, e.userId)
                     THEN Append(s[c], TranscriptionMsg(e, ev)) ELSE s[c]]

----------------------------------------------------------------------------
(* Client sockets: wss.on("connection"), register_user, close.  Sockets connect *)
(* in the order of their numbers.  conns[c].reply is the last direct answer to a  *)
(* message of the client ("registered", "error"); sent[c] holds the broadcasts.   *)

NoConn == [readyState |-> 0, userId |-> NoUser, reply |-> ""]

Connect(c) ==
    /\ conns[c].readyState = 0
    /\ \A d \in Conns : d < c => conns[d].readyState # 0
    /\ conns' = [conns EXCEPT ![c] = [readyState |-> WsOpen, userId |-> NoUser, reply |-> ""]]
    /\ UNCHANGED << registryVars, reqs, meetings, sent, pipeVars, whVars, envVars, desktopVars, hookVars, sweepVars, stream >>

\* case "register_user"; userId = NoUser is a message without userId
RegisterUser(c, userId) ==
    /\ conns[c].readyState = WsOpen
    /\ conns' = [conns EXCEPT ![c] =
                   IF userId = NoUser THEN [@ EXCEPT !.reply = "error"]
                   ELSE [@ EXCEPT !.userId = userId, !.reply = "registered"]]
    /\ UNCHANGED << registryVars, reqs, meetings, sent, pipeVars, whVars, envVars, desktopVars, hookVars, sweepVars, stream >>

\* the socket starts its closing handshake: readyState 2, still in wss.clients
ConnClosing(c) ==
    /\ conns[c].readyState = WsOpen
    /\ conns' = [conns EXCEPT ![c].readyState = WsClosing]
    /\ UNCHANGED << registryVars, reqs, meetings, sent, pipeVars, whVars, envVars, desktopVars, hookVars, sweepVars, stream >>

\* ws.on("close"): wsClients.delete(ws)
ConnClose(c) ==
    /\ conns[c].readyState \in {WsOpen, WsClosing}
    /\ conns' = [conns EXCEPT ![c] = [readyState |-> WsClosed, userId |-> NoUser,
                                      reply |-> ""]]
    /\ UNCHANGED << registryVars, reqs, meetings, sent, pipeVars, whVars, envVars, desktopVars, hookVars, sweepVars, stream >>

----------------------------------------------------------------------------
(* HTTP requests.  A request takes the lowest free slot of reqs. *)

FreeReq(r) == reqs[r].kind = "none" /\ \A q \in ReqIds : q < r => reqs[q].kind # "none"

Respond(r, code) == [reqs EXCEPT ![r].pc = "done", ![r].resp = code]

\* connectTranscriptStream: the entry stored for a new bot
ChannelType == IF useWebhook THEN "webhook" ELSE "websocket"

\* POST /api/recall/launch up to `await axios.post`: validation, the route's
\* getBotByUserId check and createBot's own (no await lies between them)
\* (with both tests removed)
ExistingBotCheckNone(userId) == 0

ExistingBotCheck(userId) == getBotByUserId(userId)

LaunchStart(r, userId, hasUrl) ==
    /\ FreeReq(r)
    /\ LET q == [kind |-> "launch", user |-> userId, bot |-> 0, pc |-> "idle", resp |-> 0] IN
       reqs' = [reqs EXCEPT ![r] =
                  IF ~hasUrl \/ userId = NoUser THEN [q EXCEPT !.pc = "done", !.resp = 400]
                  ELSE IF ExistingBotCheck(userId) # 0
                       THEN [q EXCEPT !.pc = "done", !.resp = 409,
                                      !.bot = ExistingBotCheck(userId)]
                       ELSE [q EXCEPT !.pc = "post"]]
    /\ UNCHANGED << registryVars, meetings, conns, sent, pipeVars, whVars, envVars, desktopVars, hookVars, sweepVars, stream >>

\* the provider answers the POST with a new bot id: createBot stores the bot, emits
\* bot-created, sets up the transcript stream; the route then saves the Meeting
\* document (await) when Mongo is connected, else answers at once
LaunchPostOk(r, status) ==
    /\ reqs[r].kind = "launch" /\ reqs[r].pc = "post"
    /\ nextBot < MaxBots
    /\ LET id == nextBot + 1
           statusCode == StatusCode(status, "created")
       IN /\ nextBot' = id
          /\ activeBots' = [activeBots EXCEPT ![id] =
                              [userId |-> reqs[r].user, status |-> statusCode]]
          /\ sent' = BroadcastLifecycle(sent,
                        LifecycleMsg("bot_created", id, reqs[r].user, statusCode))
          /\ transcriptConnections' = [transcriptConnections EXCEPT ![id] = ChannelType]
          /\ stream' = [stream EXCEPT ![id] =
                          IF useWebhook THEN NoStream
                          ELSE [state |-> "connecting", userId |-> reqs[r].user]]
          /\ reqs' = IF dbConnected
                     THEN [reqs EXCEPT ![r].pc = "save", ![r].bot = id]
                     ELSE [reqs EXCEPT ![r].pc = "done", ![r].bot = id, ![r].resp = 200]
    /\ UNCHANGED << meetings, conns, pipeVars, whVars, envVars, desktopVars, hookVars, sweepVars >>

\* the POST fails: createBot rethrows, the route answers 500
\* (with the bot stored before the POST is awaited)
LaunchPostFailPartial(r) ==
    /\ reqs[r].kind = "launch" /\ reqs[r].pc = "post"
    /\ nextBot < MaxBots
    /\ nextBot' = nextBot + 1
    /\ activeBots' = [activeBots EXCEPT ![nextBot + 1] =
                        [userId |-> reqs[r].user, status |-> "created"]]
    /\ reqs' = Respond(r, 500)
    /\ UNCHANGED << transcriptConnections, meetings, conns, sent, pipeVars, whVars, envVars,
                    desktopVars, hookVars, sweepVars, stream >>

LaunchPostFail(r) ==
    /\ reqs[r].kind = "launch" /\ reqs[r].pc = "post"
    /\ reqs' = Respond(r, 500)
    /\ UNCHANGED << registryVars, meetings, conns, sent, pipeVars, whVars, envVars, desktopVars, hookVars, sweepVars, stream >>

NewMeeting(userId) ==
    [userId |-> userId, status |-> "active", transcriptions |-> << >>, endTime |-> FALSE]

\* meeting.save() of the new Meeting document resolves
LaunchSaveOk(r) ==
    /\ reqs[r].kind = "launch" /\ reqs[r].pc = "save"
    /\ meetings' = [meetings EXCEPT ![reqs[r].bot] = NewMeeting(reqs[r].user)]
    /\ reqs' = Respond(r, 200)
    /\ UNCHANGED << registryVars, conns, sent, pipeVars, whVars, envVars, desktopVars, hookVars, sweepVars, stream >>

\* meeting.save() rejects: caught and logged, the launch still answers 200
LaunchSaveFail(r) ==
    /\ reqs[r].kind = "launch" /\ reqs[r].pc = "save"
    /\ reqs' = Respond(r, 200)
    /\ UNCHANGED << registryVars, meetings, conns, sent, pipeVars, whVars, envVars, desktopVars, hookVars, sweepVars, stream >>

----------------------------------------------------------------------------
(* POST /api/recall/leave and RecallService.leaveBot *)

\* target resolution of the route: the explicit bot id, else the owner's bot; 0 if none
LeaveTarget(botId, userId) ==
    IF botId # 0 THEN botId
    ELSE IF userId # NoUser THEN getBotByUserId(userId) ELSE 0

LeaveStart(r, botId, userId) ==
    /\ FreeReq(r)
    /\ LET q == [kind |-> "leave", user |-> userId, bot |-> LeaveTarget(botId, userId),
                 pc |-> "idle", resp |-> 0] IN
       reqs' = [reqs EXCEPT ![r] =
                  IF botId = 0 /\ userId = NoUser THEN [q EXCEPT !.pc = "done", !.resp = 400]
                  ELSE IF LeaveTarget(botId, userId) = 0
                       THEN [q EXCEPT !.pc = "done", !.resp = 404]
                       ELSE [q EXCEPT !.pc = "delete"]]
    /\ UNCHANGED << registryVars, meetings, conns, sent, pipeVars, whVars, envVars, desktopVars, hookVars, sweepVars, stream >>

\* connection.ws.close() of leaveBot.  A socket that is still connecting aborts its
\* handshake and gets 'error' and 'close' together before any other callback runs,
\* which leaves no entry; an open socket starts its closing handshake.
CloseStream(s) == IF s = "connecting" THEN "closed" ELSE IF s = "open" THEN "closing" ELSE s

\* leaveBot after `await axios.delete` resolved: close the socket of a websocket
\* entry, drop the channel entry and the bot, emit bot-left with the owner found
\* (undefined if the bot was not registered)
LeaveLocalCleanup(b) ==
    /\ stream' = IF transcriptConnections[b] = "websocket"
                 THEN [stream EXCEPT ![b].state = CloseStream(@)] ELSE stream
    /\ transcriptConnections' = [transcriptConnections EXCEPT ![b] = "none"]
    /\ activeBots' = [activeBots EXCEPT ![b] = NoBot]
    /\ sent' = BroadcastLifecycle(sent, LifecycleMsg("bot_left", b, activeBots[b].userId, ""))

LeaveDeleteOk(r) ==
    /\ reqs[r].kind = "leave" /\ reqs[r].pc = "delete"
    /\ reqs[r].bot <= nextBot    \* the provider deletes only a bot it has created
    /\ LeaveLocalCleanup(reqs[r].bot)
    /\ reqs' = IF dbConnected THEN [reqs EXCEPT ![r].pc = "find"] ELSE Respond(r, 200)
    /\ UNCHANGED << nextBot, meetings, conns, pipeVars, whVars, envVars, desktopVars, hookVars, sweepVars >>

\* `await axios.delete` rejects: leaveBot logs and rethrows before any local
\* cleanup, the route answers 500
LeaveDeleteFail(r) ==
    /\ reqs[r].kind = "leave" /\ reqs[r].pc = "delete"
    /\ reqs' = Respond(r, 500)
    /\ UNCHANGED << registryVars, meetings, conns, sent, pipeVars, whVars, envVars, desktopVars, hookVars, sweepVars, stream >>

\* Meeting.findOne({ botId }) resolves: with a document, set status/endTime and save
LeaveFindOk(r) ==
    /\ reqs[r].kind = "leave" /\ reqs[r].pc = "find"
    /\ reqs' = IF meetings[reqs[r].bot] # NoRec THEN [reqs EXCEPT ![r].pc = "mark"]
               ELSE Respond(r, 200)
    /\ UNCHANGED << registryVars, meetings, conns, sent, pipeVars, whVars, envVars, desktopVars, hookVars, sweepVars, stream >>

LeaveMarkOk(r) ==
    /\ reqs[r].kind = "leave" /\ reqs[r].pc = "mark"
    /\ meetings' = [meetings EXCEPT ![reqs[r].bot].status = "ended",
                                    ![reqs[r].bot].endTime = TRUE]
    /\ reqs' = Respond(r, 200)
    /\ UNCHANGED << registryVars, conns, sent, pipeVars, whVars, envVars, desktopVars, hookVars, sweepVars, stream >>

\* findOne or save rejects: caught and logged, the leave still answers 200
LeaveDbFail(r) ==
    /\ reqs[r].kind = "leave" /\ reqs[r].pc \in {"find", "mark"}
    /\ reqs' = Respond(r, 200)
    /\ UNCHANGED << registryVars, meetings, conns, sent, pipeVars, whVars, envVars, desktopVars, hookVars, sweepVars, stream >>

----------------------------------------------------------------------------
(* Transcript normalisation (webhookController.js) *)

RECURSIVE JoinWords(_)
\* words.map(w => w.text).join(' ')
JoinWords(ws) ==
    IF ws = << >> THEN ""
    ELSE IF Len(ws) = 1 THEN ws[1]
    ELSE ws[1] \o " " \o JoinWords(Tail(ws))

\* segment.speaker || "Unknown"
SegSpeaker(seg) == IF seg.speaker = "" THEN "Unknown" ELSE seg.speaker

\* segment.text || segment.words?.map(w => w.text).join(' ') || ""
SegText(seg) == IF seg.text # "" THEN seg.text ELSE JoinWords(seg.words)

\* segment.is_final !== false
SegIsFinal(seg) == seg.is_final # "false"

NoSeg == [speaker |-> "", text |-> "", words |-> << >>, is_final |-> "absent",
          start_time |-> "none"]
SegFinal == [speaker |-> "Alice", text |-> "hello", words |-> << >>, is_final |-> "true",
             start_time |-> "ok"]
SegInterim == [speaker |-> "", text |-> "", words |-> << "hel", "lo" >>,
               is_final |-> "false", start_time |-> "absent"]
SegEmpty == [speaker |-> "Bob", text |-> "", words |-> << >>, is_final |-> "true",
            start_time |-> "ok"]
SegDefault == [speaker |-> "Bob", text |-> "ok", words |-> << >>, is_final |-> "absent",
               start_time |-> "absent"]
SegBadTime == [speaker |-> "Alice", text |-> "hello", words |-> << >>, is_final |-> "true",
               start_time |-> "invalid"]

Segments == {SegFinal, SegInterim, SegEmpty, SegDefault}

\* the payload of the "transcript" event; seg and path are not part of it: they
\* record the segment it was built from and the service it was emitted on
TranscriptEvent(botId, userId, seg, path) ==
    [botId |-> botId, userId |-> userId, speaker |-> SegSpeaker(seg), text |-> SegText(seg),
     isFinal |-> SegIsFinal(seg), seg |-> seg, path |-> path]

----------------------------------------------------------------------------
(* recallService.on("transcript") of index.js *)

\* the guard of the persistence block; without the isFinal test
ShouldPersistAny(e) == dbConnected

ShouldPersist(e) == e.isFinal /\ dbConnected

\* Meeting.findOne({ botId, userId, status: { $ne: 'ended' } })
FindOpenMeeting(e) ==
    /\ meetings[e.botId] # NoRec
    /\ meetings[e.botId].userId = e.userId
    /\ meetings[e.botId].status # "ended"

\* the sub-document pushed onto meeting.transcriptions
StoredEntry(e, ev) ==
    [speaker |-> IF e.speaker = "" THEN "Unknown" ELSE e.speaker, text |-> e.text, ev |-> ev]

\* transcriptionSchema: text is required, and Mongoose rejects the empty string
EntryValid(entry) == entry.text # ""

\* the try/catch around findOne and save: is a rejection at this await caught?
\* (with the try block closed before save)
DbErrorCaughtFindOnly(stage) == stage = "find"

DbErrorCaught(stage) == stage \in {"find", "save"}

\* the part of the handler that runs inside emit(): up to the first await
HandleTranscript(e) ==
    LET ev == Len(emitted) + 1 IN
    /\ emitted' = Append(emitted, e)
    /\ IF ShouldPersist(e)
       THEN /\ tasks' = [tasks EXCEPT ![ev] = "find"]
            /\ UNCHANGED sent
       ELSE /\ tasks' = [tasks EXCEPT ![ev] = "live"]
            /\ sent' = BroadcastTranscript(sent, e, ev)

\* findOne resolves: with a document, push the entry and await save; without, broadcast
TranscriptFindOk(ev) ==
    /\ tasks[ev] = "find" /\ emitted[ev].path = "bot"
    /\ IF FindOpenMeeting(emitted[ev])
       THEN /\ tasks' = [tasks EXCEPT ![ev] = "save"]
            /\ UNCHANGED sent
       ELSE /\ tasks' = [tasks EXCEPT ![ev] = "nosave"]
            /\ sent' = BroadcastTranscript(sent, emitted[ev], ev)
    /\ UNCHANGED << registryVars, reqs, meetings, conns, emitted, whVars, envVars, desktopVars, hookVars, sweepVars, stream >>

\* save settles without a storage failure: validation (a ValidationError is caught
\* like any rejection and nothing is written), then $push of the new entry
TranscriptSaveOk(ev) ==
    /\ tasks[ev] = "save" /\ emitted[ev].path = "bot"
    /\ LET e == emitted[ev]
           entry == StoredEntry(e, ev)
       IN IF EntryValid(entry)
          THEN /\ meetings' = [meetings EXCEPT ![e.botId].transcriptions = Append(@, entry)]
               /\ tasks' = [tasks EXCEPT ![ev] = "saved"]
          ELSE /\ UNCHANGED meetings
               /\ tasks' = [tasks EXCEPT ![ev] = "invalid"]
    /\ sent' = BroadcastTranscript(sent, emitted[ev], ev)
    /\ UNCHANGED << registryVars, reqs, conns, emitted, whVars, envVars, desktopVars, hookVars, sweepVars, stream >>

\* findOne or save rejects
TranscriptDbFail(ev) ==
    /\ tasks[ev] \in {"find", "save"} /\ emitted[ev].path = "bot"
    /\ IF DbErrorCaught(tasks[ev])
       THEN /\ tasks' = [tasks EXCEPT ![ev] = "dbfail"]
            /\ sent' = BroadcastTranscript(sent, emitted[ev], ev)
       ELSE /\ tasks' = [tasks EXCEPT ![ev] = "lost"]
            /\ UNCHANGED sent
    /\ UNCHANGED << registryVars, reqs, meetings, conns, emitted, whVars, envVars, desktopVars, hookVars, sweepVars, stream >>

----------------------------------------------------------------------------
(* connectTranscriptStream, WebSocket mode: the callbacks of the socket to the      *)
(* provider.  stream[b].userId is the userId the callbacks closed over.  The        *)
(* repository holds two copies of RecallService, which differ in ws.on('error').    *)

\* frames of type 'transcript': the text is built from data.words alone
FrameFinal == [speaker |-> "Alice", text |-> "", words |-> << "hel", "lo" >>,
               is_final |-> "true", start_time |-> "absent"]
FrameInterim == [speaker |-> "", text |-> "", words |-> << "hel" >>,
                 is_final |-> "false", start_time |-> "absent"]

Frames == {FrameFinal, FrameInterim}

\* the payload ws.on('message') emits for a frame of bot b
StreamEvent(b, frame) ==
    [botId |-> b, userId |-> stream[b].userId, speaker |-> SegSpeaker(frame),
     text |-> JoinWords(frame.words), isFinal |-> SegIsFinal(frame), seg |-> frame,
     path |-> "bot"]

\* ws.on('open'): logs
StreamOpen(b) ==
    /\ stream[b].state = "connecting"
    /\ stream' = [stream EXCEPT ![b].state = "open"]
    /\ UNCHANGED << registryVars, reqs, meetings, conns, sent, pipeVars, whVars, envVars,
                    desktopVars, hookVars, sweepVars >>

\* the handshake fails: 'error' and 'close' are emitted together, and whatever the
\* 'error' handler stored the 'close' handler deletes
StreamConnectFail(b) ==
    /\ stream[b].state = "connecting"
    /\ stream' = [stream EXCEPT ![b].state = "closed"]
    /\ transcriptConnections' = [transcriptConnections EXCEPT ![b] = "none"]
    /\ UNCHANGED << activeBots, nextBot, reqs, meetings, conns, sent, pipeVars, whVars,
                    envVars, desktopVars, hookVars, sweepVars >>

\* ws.on('message') for a frame of type 'transcript'; frames are still read while
\* the closing handshake runs
StreamMessage(b, frame) ==
    /\ stream[b].state \in {"open", "closing"}
    /\ Len(emitted) < MaxEvents
    /\ HandleTranscript(StreamEvent(b, frame))
    /\ UNCHANGED << registryVars, reqs, meetings, conns, whVars, envVars, desktopVars,
                    hookVars, sweepVars, stream >>

\* ws.on('error') of services/recallService.js on an established socket: logs; the
\* socket's 'close' follows later
StreamError(b) ==
    /\ stream[b].state \in {"open", "closing"}
    /\ stream' = [stream EXCEPT ![b].state = "errored"]
    /\ UNCHANGED << registryVars, reqs, meetings, conns, sent, pipeVars, whVars, envVars,
                    desktopVars, hookVars, sweepVars >>

\* ws.on('error') of the other copy: stores an entry of type 'websocket-failed'
StreamErrorMarkFailed(b) ==
    /\ stream[b].state \in {"open", "closing"}
    /\ stream' = [stream EXCEPT ![b].state = "errored"]
    /\ transcriptConnections' = [transcriptConnections EXCEPT ![b] = "websocket-failed"]
    /\ UNCHANGED << activeBots, nextBot, reqs, meetings, conns, sent, pipeVars, whVars,
                    envVars, desktopVars, hookVars, sweepVars >>

\* ws.on('close'): transcriptConnections.delete(botId)
\* (with the bot deleted as well)
StreamCloseRemovesBot(b) ==
    /\ stream[b].state \in {"open", "closing", "errored"}
    /\ stream' = [stream EXCEPT ![b].state = "closed"]
    /\ transcriptConnections' = [transcriptConnections EXCEPT ![b] = "none"]
    /\ activeBots' = [activeBots EXCEPT ![b] = NoBot]
    /\ UNCHANGED << nextBot, reqs, meetings, conns, sent, pipeVars, whVars,
                    envVars, desktopVars, hookVars, sweepVars >>

StreamClose(b) ==
    /\ stream[b].state \in {"open", "closing", "errored"}
    /\ stream' = [stream EXCEPT ![b].state = "closed"]
    /\ transcriptConnections' = [transcriptConnections EXCEPT ![b] = "none"]
    /\ UNCHANGED << activeBots, nextBot, reqs, meetings, conns, sent, pipeVars, whVars,
                    envVars, desktopVars, hookVars, sweepVars >>

----------------------------------------------------------------------------
(* POST /api/webhooks/recall *)

\* a request body: event "nobody" is a request whose body is undefined
Body(event, hasData, bot_id, seg, status) ==
    [event |-> event, hasData |-> hasData, bot_id |-> bot_id, seg |-> seg, status |-> status]

\* recallService.activeBots.get(botId) is defined; without the early return
KnownBotAny(b) == b \in BotIds

KnownBot(b) == b \in BotIds /\ activeBots[b] # NoBot

\* what the handler does with the body after reading it, as the list of its
\* processing steps; "throw" is an exception raised inside the try block
RecallProcessing(body) ==
    IF body.event = "nobody" THEN << "throw" >>
    ELSE IF body.event = "transcript.segment"
    THEN IF ~body.hasData THEN << >>
         ELSE IF body.bot_id = 0 \/ body.seg = NoSeg THEN << >>
         ELSE IF ~KnownBot(body.bot_id) THEN << "lookup" >>
         ELSE IF body.seg.start_time = "invalid" THEN << "lookup", "throw" >>
         ELSE << "lookup", "emit" >>
    ELSE IF body.event = "bot.status_change"
    THEN IF body.hasData /\ body.bot_id # 0 /\ body.status # ""
         THEN IF KnownBot(body.bot_id) THEN << "lookup", "status" >> ELSE << "lookup" >>
         ELSE << >>
    ELSE << >>

\* res.sendStatus(200) is the first statement, the try/catch encloses the rest
\* (with the response sent after the processing, and no try/catch)
HandlerStepsRespondLast(processing) ==
    IF "throw" \in {processing[i] : i \in DOMAIN processing}
    THEN processing
    ELSE processing \o << "respond" >>

HandlerSteps(processing) ==
    << "respond" >> \o processing \o
       (IF "throw" \in {processing[i] : i \in DOMAIN processing} THEN << "caught" >> ELSE << >>)

Has(steps, x) == x \in {steps[i] : i \in DOMAIN steps}

WebhookLog(route, body, steps) ==
    [route |-> route, event |-> body.event, bot |-> 0, steps |-> steps,
     resp |-> IF Has(steps, "respond") THEN 200 ELSE 500,
     escaped |-> Has(steps, "throw") /\ ~Has(steps, "caught")]

WebhookRecall(body) ==
    /\ whCount < MaxWebhooks
    /\ LET steps == HandlerSteps(RecallProcessing(body)) IN
       /\ lastWh' = [WebhookLog("recall", body, steps) EXCEPT !.bot = body.bot_id]
       /\ whCount' = whCount + 1
       /\ IF Has(steps, "emit")
          THEN /\ Len(emitted) < MaxEvents
               /\ HandleTranscript(TranscriptEvent(body.bot_id,
                       activeBots[body.bot_id].userId, body.seg, "bot"))
          ELSE UNCHANGED << emitted, tasks, sent >>
       /\ IF Has(steps, "status")
          THEN activeBots' = SetStatus(activeBots, body.bot_id, body.status)
          ELSE UNCHANGED activeBots
    /\ UNCHANGED << transcriptConnections, nextBot, reqs, meetings, conns, envVars, desktopVars, hookVars, sweepVars, stream >>

----------------------------------------------------------------------------
(* Status polls: GET /api/recall/status/:botId and GET /api/recall/my-bot/:userId. *)
(* Both are logged in lastWh like the webhooks.                                    *)

\* bot.status?.code || bot.status, for a provider response whose status is s
PollStatus(s) == IF s = "" THEN "undefined" ELSE s

\* getBotStatus after `await axios.get` resolved, reached from GET /status/:botId:
\* the handler has no effect before that await.  The provider knows the bots it made.
GetBotStatusOk(b, status) ==
    /\ whCount < MaxWebhooks
    /\ b \in BotIds /\ b <= nextBot
    /\ activeBots' = SetStatus(activeBots, b, PollStatus(status))
    /\ lastWh' = [route |-> "status", event |-> "poll", bot |-> b,
                  steps |-> << "get", "cache", "respond" >>, resp |-> 200, escaped |-> FALSE]
    /\ whCount' = whCount + 1
    /\ UNCHANGED << transcriptConnections, nextBot, reqs, meetings, conns, sent, pipeVars,
                    envVars, desktopVars, hookVars, sweepVars, stream >>

\* axios.get rejects: getBotStatus logs and returns null, the route answers 404
GetBotStatusFail(b) ==
    /\ whCount < MaxWebhooks
    /\ b \in BotIds
    /\ lastWh' = [route |-> "status", event |-> "poll", bot |-> b,
                  steps |-> << "get", "caught", "respond" >>, resp |-> 404, escaped |-> FALSE]
    /\ whCount' = whCount + 1
    /\ UNCHANGED << registryVars, reqs, meetings, conns, sent, pipeVars, envVars, desktopVars,
                    hookVars, sweepVars, stream >>

\* GET /my-bot/:userId up to `await getBotStatus`: the owner's bot object is looked up
MyBotStart(r, userId) ==
    /\ FreeReq(r)
    /\ LET q == [kind |-> "myBot", user |-> userId, bot |-> getBotByUserId(userId),
                 pc |-> "idle", resp |-> 0] IN
       reqs' = [reqs EXCEPT ![r] =
                  IF getBotByUserId(userId) = 0 THEN [q EXCEPT !.pc = "done", !.resp = 404]
                  ELSE [q EXCEPT !.pc = "get"]]
    /\ UNCHANGED << registryVars, meetings, conns, sent, pipeVars, whVars, envVars,
                    desktopVars, hookVars, sweepVars, stream >>

\* the poll resolved: getBotStatus updates the cache if the bot is still there, the
\* route then assigns the same value to the bot object it looked up (the registry's
\* object, or a detached one if the bot was removed meanwhile)
MyBotGetOk(r, status) ==
    /\ reqs[r].kind = "myBot" /\ reqs[r].pc = "get"
    /\ activeBots' = SetStatus(activeBots, reqs[r].bot, PollStatus(status))
    /\ reqs' = Respond(r, 200)
    /\ UNCHANGED << transcriptConnections, nextBot, meetings, conns, sent, pipeVars, whVars,
                    envVars, desktopVars, hookVars, sweepVars, stream >>

\* the poll failed: getBotStatus returned null, the cached bot is answered
MyBotGetFail(r) ==
    /\ reqs[r].kind = "myBot" /\ reqs[r].pc = "get"
    /\ reqs' = Respond(r, 200)
    /\ UNCHANGED << registryVars, meetings, conns, sent, pipeVars, whVars, envVars,
                    desktopVars, hookVars, sweepVars, stream >>

----------------------------------------------------------------------------
(* RecallDesktopService and POST /api/recall-desktop/create-upload *)

UploadsOf(userId) ==
    {s \in UploadIds : activeUploads[s] # NoBot /\ activeUploads[s].userId = userId}

getUploadByUserId(userId) == IF UploadsOf(userId) = {} THEN 0 ELSE SetMin(UploadsOf(userId))

\* the route up to `await axios.post`: validation and the two existing-upload checks
CreateUploadStart(r, userId) ==
    /\ FreeReq(r)
    /\ LET q == [kind |-> "createUpload", user |-> userId, bot |-> 0, pc |-> "idle",
                 resp |-> 0] IN
       reqs' = [reqs EXCEPT ![r] =
                  IF userId = NoUser THEN [q EXCEPT !.pc = "done", !.resp = 400]
                  ELSE IF getUploadByUserId(userId) # 0
                       THEN [q EXCEPT !.pc = "done", !.resp = 409,
                                      !.bot = getUploadByUserId(userId)]
                       ELSE [q EXCEPT !.pc = "post"]]
    /\ UNCHANGED << registryVars, meetings, conns, sent, pipeVars, whVars, envVars,
                    desktopVars, hookVars, sweepVars, stream >>

\* the provider answers with an upload id and token: createUpload stores both; the
\* route then saves the Meeting document (await) when Mongo is connected
CreateUploadPostOk(r) ==
    /\ reqs[r].kind = "createUpload" /\ reqs[r].pc = "post"
    /\ nextUpload < MaxUploads
    /\ LET id == MaxBots + nextUpload + 1 IN
       /\ nextUpload' = nextUpload + 1
       /\ activeUploads' = [activeUploads EXCEPT ![id] =
                               [userId |-> reqs[r].user, status |-> "created"]]
       /\ uploadTokens' = uploadTokens \cup {id}
       /\ reqs' = IF dbConnected
                  THEN [reqs EXCEPT ![r].pc = "save", ![r].bot = id]
                  ELSE [reqs EXCEPT ![r].pc = "done", ![r].bot = id, ![r].resp = 200]
    /\ UNCHANGED << registryVars, meetings, conns, sent, pipeVars, whVars, envVars,
                    hookVars, sweepVars, stream >>

CreateUploadPostFail(r) ==
    /\ reqs[r].kind = "createUpload" /\ reqs[r].pc = "post"
    /\ reqs' = Respond(r, 500)
    /\ UNCHANGED << registryVars, meetings, conns, sent, pipeVars, whVars, envVars,
                    desktopVars, hookVars, sweepVars, stream >>

CreateUploadSaveOk(r) ==
    /\ reqs[r].kind = "createUpload" /\ reqs[r].pc = "save"
    /\ meetings' = [meetings EXCEPT ![reqs[r].bot] = NewMeeting(reqs[r].user)]
    /\ reqs' = Respond(r, 200)
    /\ UNCHANGED << registryVars, conns, sent, pipeVars, whVars, envVars, desktopVars, hookVars, sweepVars, stream >>

CreateUploadSaveFail(r) ==
    /\ reqs[r].kind = "createUpload" /\ reqs[r].pc = "save"
    /\ reqs' = Respond(r, 200)
    /\ UNCHANGED << registryVars, meetings, conns, sent, pipeVars, whVars, envVars,
                    desktopVars, hookVars, sweepVars, stream >>

----------------------------------------------------------------------------
(* POST /api/recall-desktop/cancel-upload and RecallDesktopService.cancelUpload *)

\* target resolution of the route: the explicit upload id, else the owner's upload
CancelTarget(uploadId, userId) ==
    IF uploadId # 0 THEN uploadId
    ELSE IF userId # NoUser THEN getUploadByUserId(userId) ELSE 0

CancelStart(r, uploadId, userId) ==
    /\ FreeReq(r)
    /\ LET q == [kind |-> "cancel", user |-> userId, bot |-> CancelTarget(uploadId, userId),
                 pc |-> "idle", resp |-> 0] IN
       reqs' = [reqs EXCEPT ![r] =
                  IF uploadId = 0 /\ userId = NoUser THEN [q EXCEPT !.pc = "done", !.resp = 400]
                  ELSE IF CancelTarget(uploadId, userId) = 0
                       THEN [q EXCEPT !.pc = "done", !.resp = 404]
                       ELSE [q EXCEPT !.pc = "delete"]]
    /\ UNCHANGED << registryVars, meetings, conns, sent, pipeVars, whVars, envVars,
                    desktopVars, hookVars, sweepVars, stream >>

\* cancelUpload after `await axios.delete` resolved: drop the upload and its token;
\* the provider deletes only an upload it has created
CancelDeleteOk(r) ==
    /\ reqs[r].kind = "cancel" /\ reqs[r].pc = "delete"
    /\ reqs[r].bot <= MaxBots + nextUpload
    /\ activeUploads' = [activeUploads EXCEPT ![reqs[r].bot] = NoBot]
    /\ uploadTokens' = uploadTokens \ {reqs[r].bot}
    /\ reqs' = IF dbConnected THEN [reqs EXCEPT ![r].pc = "find"] ELSE Respond(r, 200)
    /\ UNCHANGED << registryVars, meetings, conns, sent, pipeVars, whVars, envVars,
                    nextUpload, hookVars, sweepVars, stream >>

\* the DELETE rejects: cancelUpload rethrows, the route answers 500
CancelDeleteFail(r) ==
    /\ reqs[r].kind = "cancel" /\ reqs[r].pc = "delete"
    /\ reqs' = Respond(r, 500)
    /\ UNCHANGED << registryVars, meetings, conns, sent, pipeVars, whVars, envVars,
                    desktopVars, hookVars, sweepVars, stream >>

\* Meeting.findOne({ botId: targetUploadId }) resolves
CancelFindOk(r) ==
    /\ reqs[r].kind = "cancel" /\ reqs[r].pc = "find"
    /\ reqs' = IF meetings[reqs[r].bot] # NoRec THEN [reqs EXCEPT ![r].pc = "mark"]
               ELSE Respond(r, 200)
    /\ UNCHANGED << registryVars, meetings, conns, sent, pipeVars, whVars, envVars,
                    desktopVars, hookVars, sweepVars, stream >>

\* meetingSchema.status: enum
MeetingStatuses == {"active", "ended"}

\* the enum validator Mongoose runs on save
StatusValid(s) == s \in MeetingStatuses

\* meeting.status = 'canceled', meeting.endTime = new Date(), then save() settles
\* with the storage up: a document that fails validation is not written, the
\* rejection is caught and logged, and the route answers 200 either way
CancelMarkSettled(r) ==
    /\ reqs[r].kind = "cancel" /\ reqs[r].pc = "mark"
    /\ LET doc == [meetings[reqs[r].bot] EXCEPT !.status = "canceled", !.endTime = TRUE] IN
       meetings' = IF StatusValid(doc.status) THEN [meetings EXCEPT ![reqs[r].bot] = doc]
                   ELSE meetings
    /\ reqs' = Respond(r, 200)
    /\ UNCHANGED << registryVars, conns, sent, pipeVars, whVars, envVars, desktopVars,
                    hookVars, sweepVars, stream >>

----------------------------------------------------------------------------
(* recallDesktopService.on("transcript") of index.js *)

\* the guard of the persistence block of the desktop handler
ShouldPersistDesktop(e) == e.isFinal /\ dbConnected

\* a transcript event emitted on recallDesktopService for a session
DesktopEvent(sessionId, userId, speaker, text, isFinal) ==
    [botId |-> sessionId, userId |-> userId, speaker |-> speaker, text |-> text,
     isFinal |-> isFinal, seg |-> NoSeg, path |-> "desktop"]

\* the handler up to its first await
DesktopTranscript(e) ==
    /\ Len(emitted) < MaxEvents
    /\ LET ev == Len(emitted) + 1 IN
       /\ emitted' = Append(emitted, e)
       /\ IF ShouldPersistDesktop(e)
          THEN /\ tasks' = [tasks EXCEPT ![ev] = "find"]
               /\ UNCHANGED sent
          ELSE /\ tasks' = [tasks EXCEPT ![ev] = "live"]
               /\ sent' = BroadcastTranscript(sent, e, ev)
    /\ UNCHANGED << registryVars, reqs, meetings, conns, whVars, envVars, desktopVars, hookVars, sweepVars, stream >>

DesktopFindOk(ev) ==
    /\ tasks[ev] = "find" /\ emitted[ev].path = "desktop"
    /\ IF FindOpenMeeting(emitted[ev])
       THEN /\ tasks' = [tasks EXCEPT ![ev] = "save"]
            /\ UNCHANGED sent
       ELSE /\ tasks' = [tasks EXCEPT ![ev] = "nosave"]
            /\ sent' = BroadcastTranscript(sent, emitted[ev], ev)
    /\ UNCHANGED << registryVars, reqs, meetings, conns, emitted, whVars, envVars,
                    desktopVars, hookVars, sweepVars, stream >>

DesktopSaveOk(ev) ==
    /\ tasks[ev] = "save" /\ emitted[ev].path = "desktop"
    /\ LET e == emitted[ev]
           entry == StoredEntry(e, ev)
       IN IF EntryValid(entry)
          THEN /\ meetings' = [meetings EXCEPT ![e.botId].transcriptions = Append(@, entry)]
               /\ tasks' = [tasks EXCEPT ![ev] = "saved"]
          ELSE /\ UNCHANGED meetings
               /\ tasks' = [tasks EXCEPT ![ev] = "invalid"]
    /\ sent' = BroadcastTranscript(sent, emitted[ev], ev)
    /\ UNCHANGED << registryVars, reqs, conns, emitted, whVars, envVars, desktopVars, hookVars, sweepVars, stream >>

DesktopDbFail(ev) ==
    /\ tasks[ev] \in {"find", "save"} /\ emitted[ev].path = "desktop"
    /\ tasks' = [tasks EXCEPT ![ev] = "dbfail"]
    /\ sent' = BroadcastTranscript(sent, emitted[ev], ev)
    /\ UNCHANGED << registryVars, reqs, meetings, conns, emitted, whVars, envVars,
                    desktopVars, hookVars, sweepVars, stream >>

----------------------------------------------------------------------------
(* POST /api/webhooks/recall-desktop *)

\* a request body of the desktop webhook; badTranscripts: data.transcripts holds an
\* element the logging loop cannot read (it throws a TypeError)
DesktopBody(event, hasData, id, status, badTranscripts) ==
    [event |-> event, hasData |-> hasData, id |-> id, status |-> status,
     badTranscripts |-> badTranscripts]

KnownUpload(id) == id \in UploadIds /\ activeUploads[id] # NoBot

\* upload.status = status?.code || status || 'completed'
CompleteStatus(body) == StatusCode(body.status, "completed")

DesktopProcessing(body) ==
    IF body.event = "nobody" THEN << "throw" >>
    ELSE IF body.event = "sdk_upload.complete"
    THEN IF ~body.hasData THEN << >>
         ELSE (IF body.id = 0 THEN << >>
               ELSE IF ~KnownUpload(body.id) THEN << "lookup" >>
               ELSE << "lookup", "status" >>)
              \o (IF body.badTranscripts THEN << "throw" >> ELSE << >>)
    ELSE IF body.event = "sdk_upload.failed"
    THEN IF ~body.hasData \/ body.id = 0 THEN << >>
         ELSE IF ~KnownUpload(body.id) THEN << "lookup" >>
         ELSE << "lookup", "delete" >>
    ELSE IF body.event = "sdk_upload.uploading"
    THEN IF body.hasData /\ body.id # 0
         THEN IF KnownUpload(body.id) THEN << "lookup", "status" >> ELSE << "lookup" >>
         ELSE << >>
    ELSE << >>

WebhookRecallDesktop(body) ==
    /\ whCount < MaxWebhooks
    /\ LET steps == HandlerSteps(DesktopProcessing(body))
           st == IF body.event = "sdk_upload.uploading" THEN "uploading"
                 ELSE CompleteStatus(body)
           gone == \/ Has(steps, "delete")
                   \/ /\ Has(steps, "status") /\ body.event = "sdk_upload.complete"
                      /\ st \in {"completed", "done"}
       IN
       /\ lastWh' = [WebhookLog("recall-desktop", body, steps) EXCEPT !.bot = body.id]
       /\ whCount' = whCount + 1
       /\ IF gone
          THEN /\ activeUploads' = [activeUploads EXCEPT ![body.id] = NoBot]
               /\ uploadTokens' = uploadTokens \ {body.id}
          ELSE IF Has(steps, "status")
          THEN /\ activeUploads' = [activeUploads EXCEPT ![body.id].status = st]
               /\ UNCHANGED uploadTokens
          ELSE UNCHANGED << activeUploads, uploadTokens >>
    /\ UNCHANGED << registryVars, reqs, meetings, conns, sent, pipeVars, envVars, nextUpload,
                    hookVars, sweepVars, stream >>

----------------------------------------------------------------------------
(* process.on("SIGTERM"): recallService.cleanup(), recallDesktopService.cleanup(), *)
(* server.close().  The handler is modelled for the first SIGTERM.                 *)

\* cleanup(): leaveBot is called for every key of activeBots, each call with its
\* own .catch; the handler then waits in Promise.all
Sigterm ==
    /\ sweepPc = "idle"
    /\ sweepPc' = "bots"
    /\ sweep' = [m \in MeetingIds |-> IF m \in BotIds /\ HasBot(m) THEN "pending" ELSE "none"]
    /\ UNCHANGED << registryVars, reqs, meetings, conns, sent, pipeVars, whVars, envVars,
                    desktopVars, hookVars, stream >>

\* the DELETE of one swept bot resolves: leaveBot's local cleanup
SweepLeaveOk(b) ==
    /\ sweepPc = "bots" /\ sweep[b] = "pending"
    /\ LeaveLocalCleanup(b)
    /\ sweep' = [sweep EXCEPT ![b] = "left"]
    /\ UNCHANGED << nextBot, reqs, meetings, conns, pipeVars, whVars, envVars, desktopVars,
                    hookVars, sweepPc >>

\* the DELETE of one swept bot rejects: leaveBot rethrows, the .catch of cleanup logs
\* (without the .catch: Promise.all rejects and the SIGTERM handler ends there)
SweepLeaveFailAbort(b) ==
    /\ sweepPc = "bots" /\ sweep[b] = "pending"
    /\ sweep' = [sweep EXCEPT ![b] = "failed"]
    /\ sweepPc' = "aborted"
    /\ UNCHANGED << registryVars, reqs, meetings, conns, sent, pipeVars, whVars, envVars,
                    desktopVars, hookVars, stream >>

SweepLeaveFail(b) ==
    /\ sweepPc = "bots" /\ sweep[b] = "pending"
    /\ sweep' = [sweep EXCEPT ![b] = "failed"]
    /\ UNCHANGED << registryVars, reqs, meetings, conns, sent, pipeVars, whVars, envVars,
                    desktopVars, hookVars, sweepPc, stream >>

\* Promise.all of recallService.cleanup resolves; recallDesktopService.cleanup calls
\* cancelUpload for every key of activeUploads
SweepBotsDone ==
    /\ sweepPc = "bots" /\ \A b \in BotIds : sweep[b] # "pending"
    /\ sweepPc' = "uploads"
    /\ sweep' = [m \in MeetingIds |->
                   IF m \in UploadIds /\ activeUploads[m] # NoBot THEN "pending" ELSE sweep[m]]
    /\ UNCHANGED << registryVars, reqs, meetings, conns, sent, pipeVars, whVars, envVars,
                    desktopVars, hookVars, stream >>

\* cancelUpload after `await axios.delete` resolved
SweepCancelOk(u) ==
    /\ sweepPc = "uploads" /\ sweep[u] = "pending"
    /\ activeUploads' = [activeUploads EXCEPT ![u] = NoBot]
    /\ uploadTokens' = uploadTokens \ {u}
    /\ sweep' = [sweep EXCEPT ![u] = "left"]
    /\ UNCHANGED << registryVars, reqs, meetings, conns, sent, pipeVars, whVars, envVars,
                    nextUpload, hookVars, sweepPc, stream >>

\* cancelUpload rethrows, the .catch of cleanup logs
SweepCancelFail(u) ==
    /\ sweepPc = "uploads" /\ sweep[u] = "pending"
    /\ sweep' = [sweep EXCEPT ![u] = "failed"]
    /\ UNCHANGED << registryVars, reqs, meetings, conns, sent, pipeVars, whVars, envVars,
                    desktopVars, hookVars, sweepPc, stream >>

\* Promise.all of recallDesktopService.cleanup resolves: server.close()
SweepUploadsDone ==
    /\ sweepPc = "uploads" /\ \A u \in UploadIds : sweep[u] # "pending"
    /\ sweepPc' = "closed"
    /\ UNCHANGED << registryVars, reqs, meetings, conns, sent, pipeVars, whVars, envVars,
                    desktopVars, hookVars, sweep, stream >>

----------------------------------------------------------------------------
(* useTranscription.ts: the client's transcript list *)

MaxHookMsgs == 4

\* message.data of a "transcription" message
HookData(speaker, text, isFinal) == [speaker |-> speaker, text |-> text, isFinal |-> isFinal]

I1 == HookData("Alice", "hel", FALSE)
I2 == HookData("Alice", "hello", FALSE)
F == HookData("Alice", "hello there", TRUE)
G == HookData("", "bye", TRUE)

HookMessages == {I1, I2, F, G}

\* newTranscription: speaker: message.data.speaker || 'User'
NewTranscription(d) == [d EXCEPT !.speaker = IF d.speaker = "" THEN "User" ELSE d.speaker]

\* the updater passed to setTranscriptions
ApplyTranscription(prev, new) ==
    IF ~new.isFinal /\ Len(prev) > 0 /\ ~prev[Len(prev)].isFinal
    THEN SubSeq(prev, 1, Len(prev) - 1) \o << new >>
    ELSE Append(prev, new)

\* ws.onmessage, case 'transcription'
HookReceive(d) ==
    /\ Len(received) < MaxHookMsgs
    /\ received' = Append(received, d)
    /\ transcriptions' = ApplyTranscription(transcriptions, NewTranscription(d))
    /\ UNCHANGED << registryVars, reqs, meetings, conns, sent, pipeVars, whVars, envVars,
                    desktopVars, sweepVars, stream >>

\* clearTranscriptions, and the reset at the head of startTranscription
ClearTranscriptions ==
    /\ received # << >>
    /\ transcriptions' = << >>
    /\ received' = << >>
    /\ UNCHANGED << registryVars, reqs, meetings, conns, sent, pipeVars, whVars, envVars,
                    desktopVars, sweepVars, stream >>

----------------------------------------------------------------------------
(* Specifications *)

\* the state after construction: empty registries, no socket, no document
Init ==
    /\ activeBots = [b \in BotIds |-> NoBot]
    /\ transcriptConnections = [b \in BotIds |-> "none"]
    /\ nextBot = 0
    /\ reqs = [r \in ReqIds |-> NoReq]
    /\ meetings = [b \in MeetingIds |-> NoRec]
    /\ conns = [c \in Conns |-> NoConn]
    /\ sent = [c \in Conns |-> << >>]
    /\ emitted = << >>
    /\ tasks = [e \in EvIds |-> "none"]
    /\ lastWh = NoWh
    /\ whCount = 0
    /\ dbConnected \in BOOLEAN
    /\ useWebhook \in BOOLEAN
    /\ activeUploads = [s \in UploadIds |-> NoBot]
    /\ uploadTokens = {}
    /\ nextUpload = 0
    /\ transcriptions = << >>
    /\ received = << >>
    /\ sweep = [m \in MeetingIds |-> "none"]
    /\ sweepPc = "idle"
    /\ stream = [b \in BotIds |-> NoStream]

UserInputs == Users \cup {NoUser}

\* Session lifecycle: concurrent launch and leave requests
NextLife ==
    \/ \E r \in ReqIds, u \in UserInputs, hasUrl \in BOOLEAN : LaunchStart(r, u, hasUrl)
    \/ \E r \in ReqIds, st \in {"", "joining"} : LaunchPostOk(r, st)
    \/ \E r \in ReqIds : LaunchPostFail(r)
    \/ \E r \in ReqIds : LaunchSaveOk(r)
    \/ \E r \in ReqIds : LaunchSaveFail(r)
    \/ \E r \in ReqIds, b \in 0 .. MaxBots, u \in UserInputs : LeaveStart(r, b, u)
    \/ \E r \in ReqIds : LeaveDeleteOk(r)
    \/ \E r \in ReqIds : LeaveDeleteFail(r)
    \/ \E r \in ReqIds : LeaveFindOk(r)
    \/ \E r \in ReqIds : LeaveMarkOk(r)
    \/ \E r \in ReqIds : LeaveDbFail(r)

SpecLife == Init /\ [][NextLife]_vars

\* The first uploadId the provider assigns
Up1 == MaxBots + 1

\* The requests that bring the server from Init to its running state: u1 launches
\* a bot, u2 creates a desktop upload, and both answer 200
NextSetup ==
    \/ LaunchStart(1, "u1", TRUE)
    \/ LaunchPostOk(1, "")
    \/ LaunchSaveOk(1)
    \/ CreateUploadStart(2, "u2")
    \/ CreateUploadPostOk(2)
    \/ CreateUploadSaveOk(2)

InitSetup == Init /\ useWebhook = TRUE

SpecSetup == InitSetup /\ [][NextSetup]_vars

\* The running state SpecSetup ends in: bot 1 of u1 and upload Up1 of u2 are
\* registered, their Meeting documents exist when Mongo is connected
Running ==
    /\ activeBots = [b \in BotIds |-> IF b = 1 THEN [userId |-> "u1", status |-> "created"]
                                      ELSE NoBot]
    /\ transcriptConnections = [b \in BotIds |-> IF b = 1 THEN "webhook" ELSE "none"]
    /\ nextBot = 1
    /\ reqs = [r \in ReqIds |->
                 IF r = 1 THEN [kind |-> "launch", user |-> "u1", bot |-> 1, pc |-> "done",
                                resp |-> 200]
                 ELSE IF r = 2 THEN [kind |-> "createUpload", user |-> "u2", bot |-> Up1,
                                     pc |-> "done", resp |-> 200]
                 ELSE NoReq]
    /\ meetings = [m \in MeetingIds |->
                     IF ~dbConnected THEN NoRec
                     ELSE IF m = 1 THEN NewMeeting("u1")
                     ELSE IF m = Up1 THEN NewMeeting("u2")
                     ELSE NoRec]
    /\ conns = [c \in Conns |-> NoConn]
    /\ sent = [c \in Conns |-> << >>]
    /\ emitted = << >>
    /\ tasks = [e \in EvIds |-> "none"]
    /\ lastWh = NoWh
    /\ whCount = 0
    /\ useWebhook = TRUE
    /\ activeUploads = [s \in UploadIds |-> IF s = Up1 THEN [userId |-> "u2", status |-> "created"]
                                            ELSE NoBot]
    /\ uploadTokens = {Up1}
    /\ nextUpload = 1
    /\ transcriptions = << >>
    /\ received = << >>
    /\ sweep = [m \in MeetingIds |-> "none"]
    /\ sweepPc = "idle"
    /\ stream = [b \in BotIds |-> NoStream]

InitRunning == dbConnected \in BOOLEAN /\ Running

\* transcript.segment webhooks with every field present
SegmentBodies == {Body("transcript.segment", TRUE, b, seg, "") : b \in BotIds, seg \in Segments}

\* Fan-out: sockets come and go while transcript webhooks arrive
NextFan ==
    \/ \E c \in Conns : Connect(c)
    \/ \E c \in Conns, u \in Users : RegisterUser(c, u)
    \/ \E c \in Conns : ConnClosing(c)
    \/ \E c \in Conns : ConnClose(c)
    \/ \E body \in SegmentBodies : WebhookRecall(body)
    \/ \E ev \in EvIds : TranscriptFindOk(ev)
    \/ \E ev \in EvIds : TranscriptSaveOk(ev)
    \/ \E ev \in EvIds : TranscriptDbFail(ev)

SpecFan == InitRunning /\ [][NextFan]_vars

DesktopEvents ==
    {DesktopEvent(Up1, u, "Carol", "notes", fin) : u \in Users, fin \in BOOLEAN}

\* Persistence: the bot path and the desktop path write to the Meeting collection,
\* one socket listens
NextStore ==
    \/ Connect(1)
    \/ \E u \in Users : RegisterUser(1, u)
    \/ \E seg \in Segments : WebhookRecall(Body("transcript.segment", TRUE, 1, seg, ""))
    \/ \E ev \in EvIds : TranscriptFindOk(ev)
    \/ \E ev \in EvIds : TranscriptSaveOk(ev)
    \/ \E ev \in EvIds : TranscriptDbFail(ev)
    \/ \E e \in DesktopEvents : DesktopTranscript(e)
    \/ \E ev \in EvIds : DesktopFindOk(ev)
    \/ \E ev \in EvIds : DesktopSaveOk(ev)
    \/ \E ev \in EvIds : DesktopDbFail(ev)

SpecStore == InitRunning /\ [][NextStore]_vars

RecallBodies ==
    {Body("transcript.segment", TRUE, b, seg, "") :
        b \in 0 .. MaxBots, seg \in Segments \cup {NoSeg, SegBadTime}}
    \cup {Body("transcript.segment", FALSE, 0, NoSeg, ""), Body("nobody", FALSE, 0, NoSeg, ""),
          Body("other", TRUE, 0, NoSeg, "")}
    \cup {Body("bot.status_change", TRUE, b, NoSeg, st) :
        b \in 0 .. MaxBots, st \in {"", "in_call_recording"}}

DesktopBodies ==
    {DesktopBody(ev, TRUE, id, st, bad) :
        ev \in {"sdk_upload.complete", "sdk_upload.failed", "sdk_upload.uploading"},
        id \in {0, Up1}, st \in {"", "processing"}, bad \in BOOLEAN}
    \cup {DesktopBody("sdk_upload.complete", FALSE, 0, "", FALSE),
          DesktopBody("nobody", FALSE, 0, "", FALSE), DesktopBody("other", TRUE, 0, "", FALSE)}

\* Webhook ingress: every body shape on both routes, while the bot may be removed
NextWebhook ==
    \/ Connect(1)
    \/ RegisterUser(1, "u1")
    \/ LeaveStart(3, 1, NoUser)
    \/ LeaveDeleteOk(3)
    \/ LeaveDeleteFail(3)
    \/ LeaveFindOk(3)
    \/ LeaveMarkOk(3)
    \/ LeaveDbFail(3)
    \/ \E body \in RecallBodies : WebhookRecall(body)
    \/ \E body \in DesktopBodies : WebhookRecallDesktop(body)
    \/ \E ev \in EvIds : TranscriptFindOk(ev)
    \/ \E ev \in EvIds : TranscriptSaveOk(ev)
    \/ \E ev \in EvIds : TranscriptDbFail(ev)

SpecWebhook == InitRunning /\ [][NextWebhook]_vars

\* The client: transcription messages arrive, the list is cleared
NextHook ==
    \/ \E d \in HookMessages : HookReceive(d)
    \/ ClearTranscriptions

SpecHook == Init /\ [][NextHook]_vars

\* Shutdown: bots and uploads are registered, then SIGTERM arrives; launches that
\* are in flight go on while the sweep runs
NextSweep ==
    \/ Connect(1)
    \/ \E r \in ReqIds, u \in Users : LaunchStart(r, u, TRUE)
    \/ \E r \in ReqIds : LaunchPostOk(r, "")
    \/ \E r \in ReqIds : LaunchSaveOk(r)
    \/ \E r \in ReqIds : CreateUploadStart(r, "u2")
    \/ \E r \in ReqIds : CreateUploadPostOk(r)
    \/ \E r \in ReqIds : CreateUploadSaveOk(r)
    \/ Sigterm
    \/ \E b \in BotIds : SweepLeaveOk(b)
    \/ \E b \in BotIds : SweepLeaveFail(b)
    \/ SweepBotsDone
    \/ \E u \in UploadIds : SweepCancelOk(u)
    \/ \E u \in UploadIds : SweepCancelFail(u)
    \/ SweepUploadsDone

\* every DELETE the sweep issued settles, and a resolved Promise.all is resumed
SweepFairness ==
    /\ \A b \in BotIds : WF_vars(SweepLeaveOk(b) \/ SweepLeaveFail(b))
    /\ \A u \in UploadIds : WF_vars(SweepCancelOk(u) \/ SweepCancelFail(u))
    /\ WF_vars(SweepBotsDone)
    /\ WF_vars(SweepUploadsDone)

SpecSweep == InitSetup /\ [][NextSweep]_vars /\ SweepFairness

\* statuses the provider reports; "" is a response or body without a status
ProviderStatuses == {"", "in_call_recording", "done", "fatal"}

StatusBodies ==
    {Body("bot.status_change", TRUE, b, NoSeg, st) : b \in BotIds, st \in ProviderStatuses}

\* Status cache: webhooks and polls report statuses while bots are launched and left
NextStatus ==
    \/ \E r \in ReqIds, u \in Users : LaunchStart(r, u, TRUE)
    \/ \E r \in ReqIds : LaunchPostOk(r, "")
    \/ \E r \in ReqIds : LaunchPostFail(r)
    \/ \E r \in ReqIds, b \in BotIds : LeaveStart(r, b, NoUser)
    \/ \E r \in ReqIds : LeaveDeleteOk(r)
    \/ \E r \in ReqIds : LeaveDeleteFail(r)
    \/ \E body \in StatusBodies : WebhookRecall(body)
    \/ \E b \in BotIds, st \in ProviderStatuses : GetBotStatusOk(b, st)
    \/ \E b \in BotIds : GetBotStatusFail(b)
    \/ \E r \in ReqIds, u \in Users : MyBotStart(r, u)
    \/ \E r \in ReqIds, st \in ProviderStatuses : MyBotGetOk(r, st)
    \/ \E r \in ReqIds : MyBotGetFail(r)

\* Mongo is not connected: the routes skip their Meeting blocks
InitStatus == Init /\ dbConnected = FALSE /\ useWebhook = TRUE

SpecStatus == InitStatus /\ [][NextStatus]_vars

\* WebSocket mode: BACKEND_URL is unset or a loopback address
InitStream == Init /\ useWebhook = FALSE

\* Streaming channel: u1 launches a bot in WebSocket mode, its socket opens, carries
\* frames, fails and closes while u1 leaves; one client socket listens
NextStream ==
    \/ Connect(1)
    \/ RegisterUser(1, "u1")
    \/ LaunchStart(1, "u1", TRUE)
    \/ LaunchPostOk(1, "")
    \/ LaunchSaveOk(1)
    \/ \E b \in BotIds : StreamOpen(b)
    \/ \E b \in BotIds : StreamConnectFail(b)
    \/ \E b \in BotIds, frame \in Frames : StreamMessage(b, frame)
    \/ \E b \in BotIds : StreamError(b)
    \/ \E b \in BotIds : StreamErrorMarkFailed(b)
    \/ \E b \in BotIds : StreamClose(b)
    \/ LeaveStart(2, 1, NoUser)
    \/ LeaveStart(2, 0, "u1")
    \/ LeaveDeleteOk(2)
    \/ LeaveDeleteFail(2)
    \/ LeaveFindOk(2)
    \/ LeaveMarkOk(2)
    \/ \E ev \in EvIds : TranscriptFindOk(ev)
    \/ \E ev \in EvIds : TranscriptSaveOk(ev)

SpecStream == InitStream /\ [][NextStream]_vars

\* Mongo is connected and the Meeting documents of the running state exist
InitTerminate == InitRunning /\ dbConnected = TRUE

\* Termination paths: leave by bot id, leave by user id and the SIGTERM sweep end
\* the running bot while client sockets listen; no storage call fails
NextTerminate ==
    \/ \E c \in Conns : Connect(c)
    \/ \E c \in Conns, u \in Users : RegisterUser(c, u)
    \/ LeaveStart(3, 1, NoUser)
    \/ LeaveStart(3, 0, "u1")
    \/ LeaveDeleteOk(3)
    \/ LeaveDeleteFail(3)
    \/ LeaveFindOk(3)
    \/ LeaveMarkOk(3)
    \/ Sigterm
    \/ \E b \in BotIds : SweepLeaveOk(b)
    \/ \E b \in BotIds : SweepLeaveFail(b)
    \/ SweepBotsDone
    \/ \E u \in UploadIds : SweepCancelOk(u)
    \/ \E u \in UploadIds : SweepCancelFail(u)
    \/ SweepUploadsDone

SpecTerminate == InitTerminate /\ [][NextTerminate]_vars

\* Desktop uploads: concurrent create-upload and cancel-upload requests; no
\* storage call fails
NextDesktop ==
    \/ \E r \in ReqIds, u \in UserInputs : CreateUploadStart(r, u)
    \/ \E r \in ReqIds : CreateUploadPostOk(r)
    \/ \E r \in ReqIds : CreateUploadPostFail(r)
    \/ \E r \in ReqIds : CreateUploadSaveOk(r)
    \/ \E r \in ReqIds, id \in {0} \cup UploadIds, u \in UserInputs : CancelStart(r, id, u)
    \/ \E r \in ReqIds : CancelDeleteOk(r)
    \/ \E r \in ReqIds : CancelDeleteFail(r)
    \/ \E r \in ReqIds : CancelFindOk(r)
    \/ \E r \in ReqIds : CancelMarkSettled(r)

SpecDesktop == InitSetup /\ [][NextDesktop]_vars

----------------------------------------------------------------------------
(* Properties *)

\* the handler invocation of event ev ends in this step
FinishesHandler(ev) ==
    /\ tasks'[ev] # tasks[ev]
    /\ tasks'[ev] \in {"live", "nosave", "saved", "invalid", "dbfail", "lost"}

\* this step sends event ev, content unchanged, on every open socket registered
\* under the event's owner
DeliveredToOwner(ev) ==
    LET e == emitted'[ev] IN
    \A c \in Conns :
        (conns[c].readyState = WsOpen /\ conns[c].userId = e.userId) =>
            /\ Len(sent'[c]) = Len(sent[c]) + 1
            /\ LET m == sent'[c][Len(sent'[c])] IN
               /\ m.type = "transcription" /\ m.ev = ev /\ m.botId = e.botId
               /\ m.speaker = e.speaker /\ m.text = e.text /\ m.isFinal = e.isFinal

\* this step appends exactly one entry, with the text of event ev, to the
\* Meeting document of the event's session
StoredOnce(ev) ==
    LET b == emitted[ev].botId
        old == meetings[b].transcriptions
        new == meetings'[b].transcriptions
    IN /\ Len(new) = Len(old) + 1
       /\ SubSeq(new, 1, Len(old)) = old
       /\ new[Len(new)].text = emitted[ev].text
       /\ new[Len(new)].ev = ev

\* C1 (SpecLife): at every instant the session registry holds at most one entry
\* per user identity, also when launches for the same user run concurrently.
C1_AtMostOneSessionPerUser == \A u \in Users : Cardinality(BotsOf(u)) <= 1

\* C2 (SpecLife): once a terminate request that resolved a target session has
\* finished, whether the provider's DELETE succeeded or failed, the session is in
\* neither the session registry nor the channel registry.
C2_TerminateAlwaysCleansUp ==
    \A r \in ReqIds :
        (reqs[r].kind = "leave" /\ reqs[r].pc = "done" /\ reqs[r].resp \notin {400, 404}) =>
            /\ activeBots[reqs[r].bot] = NoBot
            /\ transcriptConnections[reqs[r].bot] = "none"

\* C3 (SpecFan): a transcription message is sent on a socket only if that socket
\* registered a user identity and that identity is the owner of the event; a
\* socket registered under another user, or under none, gets no transcript.
C3_FanOutIsolation ==
    [][\A c \in Conns : \A i \in DOMAIN sent'[c] :
          (i > Len(sent[c]) /\ sent'[c][i].type = "transcription") =>
              /\ conns[c].userId \in Users
              /\ conns[c].userId = emitted'[sent'[c][i].ev].userId]_vars

\* u1's socket got a transcript of u1's bot while an open socket of u2 and nothing else
\* was sent to it
C3_Witness ==
    \E c, d \in Conns :
        /\ conns[c].readyState = WsOpen /\ conns[c].userId = "u2" /\ sent[c] = << >>
        /\ conns[d].userId = "u1"
        /\ \E i \in DOMAIN sent[d] :
              sent[d][i].type = "transcription" /\ emitted[sent[d][i].ev].userId = "u1"

\* C4 (SpecHook): starting from an empty list, after the interims I1 and I2 the
\* list ends with I2 and I1 is gone; after the final F that follows them the list
\* holds F and no interim entry remains.
C4_FinalSupersedesInterim ==
    /\ received = << I1, I2 >> =>
          /\ transcriptions # << >> /\ transcriptions[Len(transcriptions)] = I2
          /\ \A i \in DOMAIN transcriptions : transcriptions[i] # I1
    /\ received = << I1, I2, F >> =>
          /\ \E i \in DOMAIN transcriptions : transcriptions[i] = F
          /\ \A i \in DOMAIN transcriptions : transcriptions[i].isFinal

\* C5 (SpecFan): the transcript events of one session reach each socket in the
\* order in which the server received them.
C5_ArrivalOrderDelivery ==
    \A c \in Conns : \A i, j \in DOMAIN sent[c] :
        (/\ i < j
         /\ sent[c][i].type = "transcription" /\ sent[c][j].type = "transcription"
         /\ sent[c][i].botId = sent[c][j].botId) => sent[c][i].ev < sent[c][j].ev

\* C6 (SpecStore): every entry of a Meeting document's transcriptions comes from
\* an event with isFinal = true, on the bot path and on the desktop path alike; an
\* interim event never adds an entry.
C6_FinalOnlyPersisted ==
    \A m \in MeetingIds : \A i \in DOMAIN meetings[m].transcriptions :
        emitted[meetings[m].transcriptions[i].ev].isFinal

\* an interim and a final event of one session were both handled, and the
\* document holds the one entry of the final
C6_Witness ==
    \E x, y \in DOMAIN emitted :
        /\ emitted[x].botId = emitted[y].botId
        /\ ~emitted[x].isFinal /\ tasks[x] = "live"
        /\ emitted[y].isFinal /\ tasks[y] = "saved"
        /\ Len(meetings[emitted[y].botId].transcriptions) = 1
        /\ meetings[emitted[y].botId].transcriptions[1].ev = y

C8_PersistenceOutageStillDelivers ==
    [][\A ev \in DOMAIN emitted' :
          (/\ emitted'[ev].isFinal
           /\ FinishesHandler(ev)
           /\ \/ tasks'[ev] \in {"dbfail", "lost"}
              \/ ~dbConnected) =>
              tasks'[ev] # "lost" /\ DeliveredToOwner(ev)]_vars

\* a save of a final event was rejected and the event is on the owner's socket
C8_Witness ==
    \E ev \in DOMAIN emitted :
        /\ emitted[ev].isFinal /\ tasks[ev] = "dbfail"
        /\ \E c \in Conns : \E i \in DOMAIN sent[c] :
              /\ sent[c][i].type = "transcription" /\ sent[c][i].ev = ev
              /\ sent[c][i].text = emitted[ev].text /\ sent[c][i].isFinal

\* C9 (SpecWebhook): a transcript.segment webhook whose bot id has no entry in the
\* session registry is answered 200, sends nothing to any socket, writes nothing to
\* storage and leaves both registries as they were.
C9_UnknownBotNoEffect ==
    [][(/\ whCount' = whCount + 1
        /\ lastWh'.route = "recall" /\ lastWh'.event = "transcript.segment"
        /\ ~HasBot(lastWh'.bot)) =>
            /\ lastWh'.resp = 200 /\ ~lastWh'.escaped
            /\ UNCHANGED << activeBots, transcriptConnections, emitted, tasks, sent,
                            meetings >>]_vars

\* the webhook handled last named bot 1 after a leave had removed it
C9_Witness ==
    /\ lastWh.route = "recall" /\ lastWh.event = "transcript.segment"
    /\ lastWh.bot = 1 /\ activeBots[1] = NoBot
    /\ lastWh.steps = << "respond", "lookup" >> /\ lastWh.resp = 200
    /\ emitted = << >>

C11_SecondLaunchConflict ==
    [][\A r \in ReqIds :
          (/\ reqs[r].kind = "none" /\ reqs'[r].kind = "launch"
           /\ reqs'[r].user \in Users /\ BotsOf(reqs'[r].user) # {}
           /\ reqs'[r].resp # 400) =>
              /\ reqs'[r].pc = "done" /\ reqs'[r].resp = 409
              /\ reqs'[r].bot \in BotsOf(reqs'[r].user)
              /\ UNCHANGED << activeBots, transcriptConnections, nextBot, sent, meetings >>]_vars

\* u1's launch answered 200, its bot is still registered, and a later launch of u1
\* was answered 409
C11_Witness ==
    \E r, q \in ReqIds :
        /\ r < q
        /\ reqs[r].kind = "launch" /\ reqs[r].user = "u1" /\ reqs[r].resp = 200
        /\ HasBot(reqs[r].bot)
        /\ reqs[q].kind = "launch" /\ reqs[q].user = "u1" /\ reqs[q].resp = 409
        /\ Cardinality(BotsOf("u1")) = 1

\* C15 (SpecLife): when the provider's create call fails, the launch is answered
\* with an error and nothing is registered: activeBots, transcriptConnections, the
\* sockets' messages (no bot_created) and the Meeting collection are unchanged; a
\* later launch of a user without a registered bot is not rejected as a conflict.
C15_FailedLaunchRegistersNothing ==
    [][\A r \in ReqIds :
          /\ (reqs[r].kind = "launch" /\ reqs[r].pc = "post" /\ reqs'[r].resp = 500) =>
                /\ reqs'[r].pc = "done"
                /\ UNCHANGED << activeBots, transcriptConnections, nextBot, sent, meetings >>
          /\ (/\ reqs[r].kind = "none" /\ reqs'[r].kind = "launch"
              /\ reqs'[r].user \in Users /\ reqs'[r].resp # 400
              /\ \E q \in ReqIds : /\ reqs[q].kind = "launch" /\ reqs[q].resp = 500
                                  /\ reqs[q].user = reqs'[r].user
              /\ \A q \in ReqIds : (reqs[q].kind = "launch" /\ reqs[q].user = reqs'[r].user)
                                      => reqs[q].resp = 500) =>
                reqs'[r].pc = "post"]_vars

\* u1's first launch failed at the provider, u1's second launch registered a bot
C15_Witness ==
    \E r, q \in ReqIds :
        /\ r < q
        /\ reqs[r].kind = "launch" /\ reqs[r].user = "u1" /\ reqs[r].resp = 500
        /\ reqs[q].kind = "launch" /\ reqs[q].user = "u1" /\ reqs[q].resp = 200
        /\ BotsOf("u1") = {reqs[q].bot}

StatusUpdateTargets ==
    {b \in 0 .. MaxBots :
        \/ /\ whCount' = whCount + 1 /\ lastWh'.bot = b
           /\ \/ lastWh'.route = "recall" /\ lastWh'.event = "bot.status_change"
              \/ lastWh'.route = "status"
        \/ \E r \in ReqIds : /\ reqs[r].kind = "myBot" /\ reqs[r].pc = "get"
                             /\ reqs'[r].pc = "done" /\ reqs[r].bot = b}

\* C12 (SpecStatus): a status update for a bot id that is not in the registry
\* changes nothing and does not throw; no status update creates a registry entry or
\* touches another bot's entry; applying an update twice gives the same registry as
\* applying it once.
C12_StatusUpdateUnknownIsNoOp ==
    [][/\ \A b \in StatusUpdateTargets :
             /\ ~HasBot(b) => UNCHANGED << activeBots, transcriptConnections >>
             /\ \A c \in BotIds : c # b => activeBots'[c] = activeBots[c]
             /\ \A c \in BotIds : activeBots[c] = NoBot => activeBots'[c] = NoBot
             /\ ~lastWh'.escaped
       /\ \A b \in 0 .. MaxBots, st \in ProviderStatuses \cup {"undefined"} :
             SetStatus(SetStatus(activeBots, b, st), b, st) = SetStatus(activeBots, b, st)]_vars

\* bot 1 was removed by a leave, bot 2 is registered; the request handled last was a
\* status poll for bot 1 and bot 1 is still absent
C12_Witness ==
    /\ nextBot = 2 /\ ~HasBot(1) /\ HasBot(2)
    /\ lastWh.route = "status" /\ lastWh.bot = 1 /\ lastWh.resp = 200
    /\ \E r \in ReqIds : reqs[r].kind = "leave" /\ reqs[r].bot = 1 /\ reqs[r].resp = 200

\* C13 (SpecStatus): a launch is answered with a conflict only if the user owns a
\* bot whose status is not terminal; a user whose only bot has reached done or
\* fatal can launch again without calling leave.
C13_TerminalStatusFreesUser ==
    [][\A r \in ReqIds :
          (reqs[r].kind = "none" /\ reqs'[r].kind = "launch" /\ reqs'[r].resp = 409) =>
              \E b \in BotsOf(reqs'[r].user) : activeBots[b].status \notin {"done", "fatal"}]_vars

\* C19 (SpecStatus): once the cached status of a registered bot is done or fatal, it
\* keeps that value for as long as the bot is registered.
C19_TerminalStatusAbsorbing ==
    [][\A b \in BotIds :
          (HasBot(b) /\ activeBots[b].status \in {"done", "fatal"} /\ activeBots'[b] # NoBot) =>
              activeBots'[b].status = activeBots[b].status]_vars

C17_NeverPersistedTwice ==
    \A m \in BotIds : \A i, j \in DOMAIN meetings[m].transcriptions :
        i < j => emitted[meetings[m].transcriptions[i].ev].seg
                    # emitted[meetings[m].transcriptions[j].ev].seg

\* C18 (SpecFan): delivery does not wait on storage: the step that takes in a
\* transcript event sends it to every open socket registered under the owner.
C18_DeliveryDoesNotWaitOnStorage ==
    [][\A ev \in DOMAIN emitted' : ev \notin DOMAIN emitted => DeliveredToOwner(ev)]_vars

\* C20 (SpecWebhook): a Meeting document whose status is ended never changes again.
C20_EndedRecordFrozen ==
    [][\A m \in MeetingIds : meetings[m].status = "ended" => meetings'[m] = meetings[m]]_vars

IsFinalEntry(x) == x.isFinal

\* the entries the messages received since the last reset were turned into
ReceivedEntries == [i \in DOMAIN received |-> NewTranscription(received[i])]

\* C30 (SpecHook): between two resets the final entries of the client's list are
\* exactly the final messages received, each once and in arrival order, and the
\* list holds at most one non-final entry, which is its last element.
C30_ClientListShape ==
    /\ SelectSeq(transcriptions, IsFinalEntry) = SelectSeq(ReceivedEntries, IsFinalEntry)
    /\ \A i \in DOMAIN transcriptions :
          ~transcriptions[i].isFinal => i = Len(transcriptions)

\* the final entries of the list are the final messages received, in arrival order
FinalEntriesKept ==
    SelectSeq(transcriptions, IsFinalEntry) = SelectSeq(ReceivedEntries, IsFinalEntry)

\* a callback of the socket of bot b reports a failure or the end of the stream in
\* this step
StreamDrops(b) ==
    /\ stream'[b].state \in {"errored", "closed"} /\ stream'[b].state # stream[b].state
    /\ reqs' = reqs /\ sweep' = sweep

C26_ChannelImpliesSession ==
    \A b \in BotIds : transcriptConnections[b] # "none" => HasBot(b)

\* C27 (SpecStream): a transcript event is emitted only for a bot that is in the
\* registry when its frame or webhook is taken in.
C27_NoEventForUnregisteredBot ==
    [][\A ev \in DOMAIN emitted' :
          ev \notin DOMAIN emitted => HasBot(emitted'[ev].botId)]_vars

\* C23 (SpecLife): a leave request whose target is not a registered bot (no bot id
\* given and the user owns none, or a bot id with no entry in activeBots) is
\* answered 404 at once, and no step of it changes the registry, the channel
\* table, the sockets' messages or the Meeting collection.
C23_UnresolvedTargetNotFound ==
    [][\A r \in ReqIds :
          (/\ reqs[r].kind = "none" /\ reqs'[r].kind = "leave" /\ reqs'[r].resp # 400
           /\ ~HasBot(reqs'[r].bot)) =>
              /\ reqs'[r].pc = "done" /\ reqs'[r].resp = 404
              /\ UNCHANGED << activeBots, transcriptConnections, sent, meetings >>]_vars

\* C21 (SpecTerminate): with storage available, when a leave request has been
\* answered 200, and when the shutdown sweep has ended, the Meeting document of
\* every bot they terminated has status ended and an endTime.
C21_TerminationMarksEnded ==
    /\ \A r \in ReqIds :
          (reqs[r].kind = "leave" /\ reqs[r].pc = "done" /\ reqs[r].resp = 200) =>
              meetings[reqs[r].bot].status = "ended" /\ meetings[reqs[r].bot].endTime
    /\ sweepPc = "closed" =>
          \A b \in BotIds :
              sweep[b] = "left" => meetings[b].status = "ended" /\ meetings[b].endTime

\* C28 (SpecTerminate): on every socket the bot_left message of a bot appears at
\* most once, and it carries the userId of the bot's owner.
C28_BotLeftOnceWithOwner ==
    \A c \in Conns :
        /\ \A i, j \in DOMAIN sent[c] :
              (/\ i < j /\ sent[c][i].type = "bot_left" /\ sent[c][j].type = "bot_left")
                  => sent[c][i].botId # sent[c][j].botId
        /\ \A i \in DOMAIN sent[c] :
              (sent[c][i].type = "bot_left" /\ sent[c][i].botId = 1) => sent[c][i].userId = "u1"

\* C29 (SpecTerminate): a bot_created or bot_left message is sent on a socket only
\* if the socket is registered under the user the message names.
C29_LifecycleOnlyToOwner ==
    [][\A c \in Conns : \A i \in DOMAIN sent'[c] :
          (i > Len(sent[c]) /\ sent'[c][i].type \in {"bot_created", "bot_left"}) =>
              /\ conns[c].userId \in Users
              /\ conns[c].userId = sent'[c][i].userId]_vars

\* C24 (SpecDesktop): activeUploads never holds two uploads of the same user, also
\* when create-upload requests of that user run concurrently.
C24_AtMostOneUploadPerUser == \A u \in Users : Cardinality(UploadsOf(u)) <= 1

\* C25 (SpecDesktop): when the save of a cancel-upload request settles with the
\* storage up, the upload's Meeting document has status canceled and an endTime,
\* and its status is one of active, ended, canceled.
C25_CancelMarksCanceled ==
    [][\A r \in ReqIds :
          (reqs[r].kind = "cancel" /\ reqs[r].pc = "mark" /\ reqs'[r].pc = "done") =>
              /\ meetings'[reqs[r].bot].status = "canceled"
              /\ meetings'[reqs[r].bot].endTime
              /\ meetings'[reqs[r].bot].status \in {"active", "ended", "canceled"}]_vars

====
